---- MODULE Spec2Model ----
\* Model of examples/teleoperation_with_joint_limits.py: main() as a
\* sequential program over two ServoController handles, with the SDK calls as
\* fallible steps, the operator's interrupt signal and the wall clock as the
\* environment.
EXTENDS Integers, FiniteSets, Sequences, TLC

\* ---------------------------------------------------------------- bounds
MaxPorts == 3        \* find_servo_port returns 0..MaxPorts ports
NumJoints == 2       \* servo ids modelled out of SERVO_IDS
MaxPolls == 3        \* the poll counter saturates here
MaxOverrun == 1      \* longest measured iteration is loop_time + MaxOverrun ms

\* ------------------------------------------------------ program constants
VOLTAGE_THRESHOLD == 9
FREQUENCY == 200
timeout == 5
TOLERANCE == 20

loop_time == 1000 \div FREQUENCY      \* 1.0 / FREQUENCY, in milliseconds

Handles == {1, 2}                     \* ctrl1, ctrl2
SERVO_IDS == 1..NumJoints
Voltages == {5, VOLTAGE_THRESHOLD, 12}
PosVals == {0, TOLERANCE, TOLERANCE + 1}
Unbound == -1

\* Wall-clock seconds told apart: the start, the last second within the
\* timeout and the first second past it.
ClockVals == {0, timeout, timeout + 1}

\* Measured iteration durations (ms): instantaneous, and around loop_time.
ElapsedVals == {0} \cup ((loop_time - 1)..(loop_time + MaxOverrun))

\* Position readings: id -> position, at most one joint away from 0.
Readings ==
  {r \in [SERVO_IDS -> PosVals] :
     Cardinality({j \in SERVO_IDS : r[j] # 0}) <= 1}
NoReading == [j \in SERVO_IDS |-> Unbound]

Abs(x) == IF x < 0 THEN -x ELSE x

VARIABLES
  pc,                \* program point of main (where it stopped, once ended)
  outcome,           \* "running" or how main ended
  ports,             \* len(ports), Unbound before discovery
  constructed,       \* handle -> ServoController(...) has returned
  open,              \* handle -> port currently open
  ops,               \* handle -> SDK operations issued to it
  calibrated,        \* handle -> joint_limit_calibration has returned
  voltage1, voltage2,
  leader, follower,  \* 0 before classification, else a handle
  positions,
  follower_curr_pos,
  start_time,
  now,               \* wall clock (s)
  polls,             \* follower reads made by the poll loop (saturating)
  elapsed,           \* last measured iteration duration (ms)
  slept,             \* time.sleep argument of the last iteration, Unbound if none
  printed,           \* console lines written
  sdkError,          \* the SDK operation that raised, or "none"
  interrupted        \* the interrupt signal was delivered

vars == <<pc, outcome, ports, constructed, open, ops, calibrated, voltage1,
          voltage2, leader, follower, positions, follower_curr_pos,
          start_time, now, polls, elapsed, slept, printed, sdkError,
          interrupted>>


\* ------------------------------------------------------- control structure
\* Program points inside "try: ... except Exception" (lines 21-30).
TryDiscovery == {"discover", "check_ports"}

\* Program points inside "try: ... except KeyboardInterrupt" (lines 76-90).
TryTeleop == {"loop_start", "loop_read", "loop_write", "loop_measure", "loop_pace"}

\* Program points of the poll loop (lines 62-71).
PollLoop == {"sync_clock", "sync_poll", "sync_cmp"}

\* The handler that catches an Exception raised at program point p.
ExceptionHandlerNone(p) == "none"
ExceptionHandlerOf(p) ==
  IF p \in TryDiscovery THEN "except_Exception" ELSE "none"

\* The handler that catches a KeyboardInterrupt raised at program point p.
InterruptHandlerNone(p) == "none"
InterruptHandlerOf(p) ==
  IF p \in TryTeleop THEN "except_KeyboardInterrupt" ELSE "none"

\* ------------------------------------------------------------ SDK handles
\* ServoController.__enter__ opens the handle's port.
Connect(o, h) == [o EXCEPT ![h] = TRUE]

\* ServoController.__exit__ closes the handle's port.
Disconnect(o, h) == [o EXCEPT ![h] = FALSE]

\* Leaving "with ctrl1, ctrl2": __exit__ runs for every handle that was
\* entered, ctrl2 first.
WithExitInnerOnly(o) == Disconnect(o, 2)
WithExit(o) == Disconnect(Disconnect(o, 2), 1)

\* Program points before any handle of the with statement has been entered.
BeforeWith == {"discover", "check_ports", "construct1", "construct2", "enter1"}

\* The ports left open when an exception raised at program point p leaves main.
Unwind(p, o) == IF p \in BeforeWith THEN o ELSE WithExit(o)

\* ---------------------------------------------------------- pure helpers
\* len(ports) < 2
TooFewPortsOffByOne(n) == n < 1
TooFewPorts(n) == n < 2

\* if voltage1 < VOLTAGE_THRESHOLD: leader, follower = ctrl1, ctrl2
\* else:                            leader, follower = ctrl2, ctrl1
ClassifyInclusive(v1) ==
  IF v1 <= VOLTAGE_THRESHOLD THEN [leader |-> 1, follower |-> 2]
                             ELSE [leader |-> 2, follower |-> 1]
ClassifySameHandle(v1) ==
  IF v1 < VOLTAGE_THRESHOLD THEN [leader |-> 1, follower |-> 2]
                            ELSE [leader |-> 2, follower |-> 2]
Classify(v1) ==
  IF v1 < VOLTAGE_THRESHOLD THEN [leader |-> 1, follower |-> 2]
                            ELSE [leader |-> 2, follower |-> 1]

\* The handle "follower.joint_limit_calibration()" is called on.
CalibrationTargetLeader(l, f) == l
CalibrationTarget(l, f) == f

\* time.time() - start_time > timeout
TimedOutMillis(t, s) == t - s > timeout * 1000
TimedOut(t, s) == t - s > timeout

\* diffs = [abs(cur[id] - target[id]) for id in cur.keys()]
Diffs(cur, target) == [id \in DOMAIN cur |-> Abs(cur[id] - target[id])]

\* not any(diff > 20 for diff in diffs)
ConvergedStrict(cur, target) ==
  ~ \E id \in DOMAIN cur : Diffs(cur, target)[id] >= TOLERANCE
Converged(cur, target) ==
  ~ \E id \in DOMAIN cur : Diffs(cur, target)[id] > TOLERANCE

\* if elapsed < loop_time: time.sleep(loop_time - elapsed)
SleepForInclusive(e) == IF e <= loop_time THEN loop_time - e ELSE Unbound
SleepFor(e) == IF e < loop_time THEN loop_time - e ELSE Unbound

Min(a, b) == IF a < b THEN a ELSE b

\* ------------------------------------------------------------------ state
Init ==
  /\ pc = "discover"
  /\ outcome = "running"
  /\ ports = Unbound
  /\ constructed = [h \in Handles |-> FALSE]
  /\ open = [h \in Handles |-> FALSE]
  /\ ops = [h \in Handles |-> {}]
  /\ calibrated = [h \in Handles |-> FALSE]
  /\ voltage1 = Unbound
  /\ voltage2 = Unbound
  /\ leader = 0
  /\ follower = 0
  /\ positions = NoReading
  /\ follower_curr_pos = NoReading
  /\ start_time = Unbound
  /\ now = 0
  /\ polls = 0
  /\ elapsed = Unbound
  /\ slept = Unbound
  /\ printed = {}
  /\ sdkError = "none"
  /\ interrupted = FALSE

resolveVars == <<ports, constructed, voltage1, voltage2, leader, follower>>
syncVars == <<positions, follower_curr_pos, start_time, polls>>
loopVars == <<elapsed, slept>>
endVars == <<outcome, sdkError, interrupted>>

Running(p) == outcome = "running" /\ pc = p

\* The SDK call "op" is issued to handle h.
Call(h, op) == ops' = [ops EXCEPT ![h] = @ \cup {op}]

\* The SDK operation at the current program point raises an Exception: the
\* enclosing handler, if any, reports it and returns; otherwise it unwinds
\* through the with statement and leaves main.
Raised(op) ==
  /\ sdkError' = op
  /\ IF ExceptionHandlerOf(pc) = "except_Exception"
       THEN /\ printed' = printed \cup {"error_finding_ports"}
            /\ outcome' = "returned"
       ELSE /\ printed' = printed
            /\ outcome' = "unhandled_exception"
  /\ open' = Unwind(pc, open)
  /\ UNCHANGED <<pc, resolveVars, syncVars, loopVars, calibrated, now, interrupted>>

\* line 22: ports = find_servo_port(return_all=True)
Discover ==
  /\ Running("discover")
  /\ UNCHANGED ops
  /\ \/ /\ ports' \in 0..MaxPorts
        /\ pc' = "check_ports"
        /\ UNCHANGED <<constructed, voltage1, voltage2, leader, follower, syncVars,
                       loopVars, endVars, open, calibrated, now, printed>>
     \/ Raised("find_servo_port")

\* lines 23-32: too few ports is reported and main returns
CheckPorts ==
  /\ Running("check_ports")
  /\ IF TooFewPorts(ports)
       THEN /\ printed' = printed \cup {"need_2_ports"}
                            \cup (IF ports > 0 THEN {"available_ports"} ELSE {})
            /\ outcome' = "returned"
            /\ pc' = pc
       ELSE /\ printed' = printed \cup {"found_ports"}
            /\ outcome' = outcome
            /\ pc' = "construct1"
  /\ UNCHANGED <<resolveVars, syncVars, loopVars, sdkError, interrupted, open, ops,
                 calibrated, now>>

\* lines 35, 36: ctrlN = ServoController(SERVO_IDS, type, ports[N-1])
Construct(h) ==
  /\ Running(IF h = 1 THEN "construct1" ELSE "construct2")
  /\ UNCHANGED ops
  /\ \/ /\ constructed' = [constructed EXCEPT ![h] = TRUE]
        /\ pc' = IF h = 1 THEN "construct2" ELSE "enter1"
        /\ UNCHANGED <<ports, voltage1, voltage2, leader, follower, syncVars,
                       loopVars, endVars, open, calibrated, now, printed>>
     \/ Raised("ServoController")

Construct1 == Construct(1)
Construct2 == Construct(2)

\* line 38: with ctrl1, ctrl2: the handles are entered in order
Enter(h) ==
  /\ Running(IF h = 1 THEN "enter1" ELSE "enter2")
  /\ UNCHANGED ops
  /\ \/ /\ open' = Connect(open, h)
        /\ pc' = IF h = 1 THEN "enter2" ELSE "read_voltage1"
        /\ UNCHANGED <<resolveVars, syncVars, loopVars, endVars, calibrated, now,
                       printed>>
     \/ Raised("connect")

Enter1 == Enter(1)
Enter2 == Enter(2)

\* line 40: voltage1 = ctrl1.read_voltage(SERVO_IDS[0])
ReadVoltage1 ==
  /\ Running("read_voltage1")
  /\ Call(1, "read_voltage")
  /\ \/ /\ voltage1' \in Voltages
        /\ pc' = "read_voltage2"
        /\ UNCHANGED <<ports, constructed, voltage2, leader, follower, syncVars,
                       loopVars, endVars, open, calibrated, now, printed>>
     \/ Raised("read_voltage")

\* line 41: voltage2 = ctrl2.read_voltage(SERVO_IDS[1])
ReadVoltage2 ==
  /\ Running("read_voltage2")
  /\ Call(2, "read_voltage")
  /\ \/ /\ voltage2' \in Voltages
        /\ pc' = "classify"
        /\ UNCHANGED <<ports, constructed, voltage1, leader, follower, syncVars,
                       loopVars, endVars, open, calibrated, now, printed>>
     \/ Raised("read_voltage")

\* lines 44-51: the roles are assigned from voltage1 and printed
ClassifyRoles ==
  /\ Running("classify")
  /\ leader' = Classify(voltage1).leader
  /\ follower' = Classify(voltage1).follower
  /\ printed' = printed \cup {"roles"}
  /\ pc' = "calibrate"
  /\ UNCHANGED <<ports, constructed, voltage1, voltage2, syncVars, loopVars,
                 endVars, open, ops, calibrated, now>>

\* line 53: follower.joint_limit_calibration()
Calibrate ==
  /\ Running("calibrate")
  /\ Call(CalibrationTarget(leader, follower), "joint_limit_calibration")
  /\ \/ /\ calibrated' = [calibrated EXCEPT ![CalibrationTarget(leader, follower)] = TRUE]
        /\ pc' = "sync_read"
        /\ UNCHANGED <<resolveVars, syncVars, loopVars, endVars, open, now, printed>>
     \/ Raised("joint_limit_calibration")

\* line 57: positions = leader.read_positions()
SyncReadLeader ==
  /\ Running("sync_read")
  /\ Call(leader, "read_positions")
  /\ \/ /\ positions' \in Readings
        /\ pc' = "sync_write"
        /\ UNCHANGED <<resolveVars, follower_curr_pos, start_time, polls, loopVars,
                       endVars, open, calibrated, now, printed>>
     \/ Raised("read_positions")

\* line 58: follower.write_position(positions, speed=100, acceleration=10)
SyncWrite ==
  /\ Running("sync_write")
  /\ Call(follower, "write_position")
  /\ \/ /\ pc' = "sync_start"
        /\ UNCHANGED <<resolveVars, syncVars, loopVars, endVars, open, calibrated,
                       now, printed>>
     \/ Raised("write_position")

\* lines 60-61: start_time = time.time(); timeout = 5
SyncStart ==
  /\ Running("sync_start")
  /\ start_time' = now
  /\ pc' = "sync_clock"
  /\ UNCHANGED <<resolveVars, positions, follower_curr_pos, polls, loopVars,
                 endVars, open, ops, calibrated, now, printed>>

\* lines 63-65: the timeout is tested before each follower read
SyncClock ==
  /\ Running("sync_clock")
  /\ IF TimedOut(now, start_time)
       THEN /\ printed' = printed \cup {"timed_out"}
            /\ pc' = "teleop_start"
       ELSE /\ printed' = printed
            /\ pc' = "sync_poll"
  /\ UNCHANGED <<resolveVars, syncVars, loopVars, endVars, open, ops, calibrated, now>>

\* line 67: follower_curr_pos = follower.read_positions()
SyncPoll ==
  /\ Running("sync_poll")
  /\ Call(follower, "read_positions")
  /\ \/ /\ follower_curr_pos' \in Readings
        /\ polls' = Min(polls + 1, MaxPolls)
        /\ pc' = "sync_cmp"
        /\ UNCHANGED <<resolveVars, positions, start_time, loopVars, endVars, open,
                       calibrated, now, printed>>
     \/ Raised("read_positions")

\* lines 68-71: leave the loop when no joint is off by more than the tolerance
SyncCompare ==
  /\ Running("sync_cmp")
  /\ IF Converged(follower_curr_pos, positions)
       THEN /\ printed' = printed \cup {"synchronized"}
            /\ pc' = "teleop_start"
       ELSE /\ printed' = printed
            /\ pc' = "sync_clock"
  /\ UNCHANGED <<resolveVars, syncVars, loopVars, endVars, open, ops, calibrated, now>>

\* lines 73-74: the start of teleoperation is announced, loop_time computed
TeleopStart ==
  /\ Running("teleop_start")
  /\ printed' = printed \cup {"teleop_started"}
  /\ pc' = "loop_start"
  /\ UNCHANGED <<resolveVars, syncVars, loopVars, endVars, open, ops, calibrated, now>>

\* line 78: start = time.perf_counter()
LoopStart ==
  /\ Running("loop_start")
  /\ pc' = "loop_read"
  /\ UNCHANGED <<resolveVars, syncVars, loopVars, endVars, open, ops, calibrated,
                 now, printed>>

\* line 81: positions = leader.read_positions()
LoopRead ==
  /\ Running("loop_read")
  /\ Call(leader, "read_positions")
  /\ \/ /\ positions' \in Readings
        /\ pc' = "loop_write"
        /\ UNCHANGED <<resolveVars, follower_curr_pos, start_time, polls, loopVars,
                       endVars, open, calibrated, now, printed>>
     \/ Raised("read_positions")

\* line 82: follower.write_position(positions)
LoopWrite ==
  /\ Running("loop_write")
  /\ Call(follower, "write_position")
  /\ \/ /\ pc' = "loop_measure"
        /\ UNCHANGED <<resolveVars, syncVars, loopVars, endVars, open, calibrated,
                       now, printed>>
     \/ Raised("write_position")

\* line 85: elapsed = time.perf_counter() - start
LoopMeasure ==
  /\ Running("loop_measure")
  /\ elapsed' \in ElapsedVals
  /\ pc' = "loop_pace"
  /\ UNCHANGED <<resolveVars, syncVars, slept, endVars, open, ops, calibrated, now,
                 printed>>

\* lines 86-87: sleep the rest of the period, if any
LoopPace ==
  /\ Running("loop_pace")
  /\ slept' = SleepFor(elapsed)
  /\ pc' = "loop_start"
  /\ UNCHANGED <<resolveVars, syncVars, elapsed, endVars, open, ops, calibrated,
                 now, printed>>

\* ------------------------------------------------------------ environment
\* The interrupt signal raises KeyboardInterrupt at the current program
\* point: lines 89-90 catch it inside the teleoperation try block; anywhere
\* else it leaves main. Either way the with statement is unwound.
Interrupt ==
  /\ outcome = "running"
  /\ interrupted' = TRUE
  /\ IF InterruptHandlerOf(pc) = "except_KeyboardInterrupt"
       THEN /\ printed' = printed \cup {"stopped"}
            /\ outcome' = "stopped"
       ELSE /\ printed' = printed
            /\ outcome' = "unhandled_interrupt"
  /\ open' = Unwind(pc, open)
  /\ UNCHANGED <<pc, resolveVars, syncVars, loopVars, sdkError, ops, calibrated, now>>

\* Wall-clock time passes while the poll loop runs; the clock is followed
\* until it is past the timeout.
Tick ==
  /\ outcome = "running"
  /\ pc \in PollLoop
  /\ \E t \in ClockVals : t > now /\ now' = t
  /\ UNCHANGED <<pc, resolveVars, syncVars, loopVars, endVars, open, ops,
                 calibrated, printed>>

\* main up to the entry of the teleoperation loop (lines 12-74)
StepToTeleop ==
  \/ Discover \/ CheckPorts \/ Construct1 \/ Construct2 \/ Enter1 \/ Enter2
  \/ ReadVoltage1 \/ ReadVoltage2 \/ ClassifyRoles \/ Calibrate
  \/ SyncReadLeader \/ SyncWrite \/ SyncStart \/ SyncClock \/ SyncPoll
  \/ SyncCompare \/ TeleopStart

\* one iteration of the teleoperation loop (lines 77-87)
StepTeleop == LoopStart \/ LoopRead \/ LoopWrite \/ LoopMeasure \/ LoopPace

Next == StepToTeleop \/ StepTeleop \/ Interrupt \/ Tick

Spec == Init /\ [][Next]_vars

\* The run of main until the teleoperation loop is entered, with the
\* interpreter executing main as long as it can and the wall clock advancing.
NextToTeleop == StepToTeleop \/ Interrupt \/ Tick

FairSpec ==
  Init /\ [][NextToTeleop]_vars /\ WF_vars(StepToTeleop) /\ WF_vars(Tick)

\* ----------------------------------------------------------------- claims
BelowThreshold(v) == v < VOLTAGE_THRESHOLD
Classified == leader # 0
TeleopEntered == pc \in TryTeleop
Ended == outcome # "running"
WithinTolerance ==
  \A id \in DOMAIN follower_curr_pos :
     Abs(follower_curr_pos[id] - positions[id]) <= 20

\* C1: once the roles are assigned, voltages v1 < VOLTAGE_THRESHOLD <= v2 make
\* handle 1 the Leader and handle 2 the Follower, and voltages
\* v1 >= VOLTAGE_THRESHOLD > v2 make handle 2 the Leader and handle 1 the
\* Follower.
C1_RoleClassification ==
  Classified =>
    /\ (BelowThreshold(voltage1) /\ ~BelowThreshold(voltage2))
         => (leader = 1 /\ follower = 2)
    /\ (~BelowThreshold(voltage1) /\ BelowThreshold(voltage2))
         => (leader = 2 /\ follower = 1)

C1_Witness ==
  /\ Classified
  /\ voltage1 = VOLTAGE_THRESHOLD
  /\ BelowThreshold(voltage2)
  /\ leader = 2 /\ follower = 1

\* C2: when discovery returns 0 or 1 ports, main stops at the port check: it
\* returns after reporting the count, no ServoController is constructed, no
\* port is opened and no voltage read, calibration, position read or position
\* write is issued, so neither synchronization nor teleoperation is entered.
C2_TooFewPortsAborts ==
  (ports # Unbound /\ ports < 2) =>
    /\ pc = "check_ports"
    /\ outcome \in {"running", "returned", "unhandled_interrupt"}
    /\ outcome = "returned" => "need_2_ports" \in printed
    /\ \A h \in Handles : ~constructed[h] /\ ~open[h] /\ ops[h] = {}
    /\ positions = NoReading /\ follower_curr_pos = NoReading
    /\ "teleop_started" \notin printed

C2_Witness ==
  /\ ports = 1
  /\ outcome = "returned"
  /\ "available_ports" \in printed

\* C3: a poll leaves the loop as synchronized if and only if every joint of
\* the follower's reading is within 20 of the leader pose read before
\* polling; the loop goes on after a poll only when some joint is off by more
\* than 20, so it is left on the first poll within tolerance, and a loop left
\* as synchronized has not taken the timeout branch.
C3_ConvergenceExit ==
  /\ (pc \in {"sync_clock", "sync_poll"} /\ polls >= 1) => ~WithinTolerance
  /\ pc = "teleop_start" =>
       /\ "synchronized" \in printed <=> (polls >= 1 /\ WithinTolerance)
       /\ "synchronized" \in printed <=> "timed_out" \notin printed

C3_Witness ==
  /\ pc = "teleop_start"
  /\ polls = 2
  /\ "synchronized" \in printed
  /\ "timed_out" \notin printed
  /\ \E id \in SERVO_IDS : Abs(follower_curr_pos[id] - positions[id]) = 20

C5_Pacing ==
  (pc \in TryTeleop \ {"loop_pace"} /\ elapsed # Unbound) =>
     /\ elapsed >= loop_time => slept = Unbound
     /\ elapsed < loop_time => (slept = loop_time - elapsed /\ slept > 0)

C5_Witness ==
  /\ pc = "loop_start"
  /\ elapsed = loop_time
  /\ slept = Unbound
  /\ outcome = "running"

C7_OnlyInterruptEndsLoop ==
  (TeleopEntered /\ Ended) => (interrupted /\ outcome = "stopped")

\* C7, amended: the teleoperation loop ends only on the interrupt signal or on
\* leader.read_positions / follower.write_position raising; the interrupt is
\* caught, "Stopped." is printed and main exits cleanly; a raised error leaves
\* main unhandled; once main has ended nothing more happens, no follower
\* write included.
C7_TeleopExit ==
  /\ [](TeleopEntered /\ Ended =>
          \/ /\ interrupted
             /\ outcome = "stopped"
             /\ "stopped" \in printed
             /\ sdkError = "none"
          \/ /\ ~interrupted
             /\ outcome = "unhandled_exception"
             /\ \/ pc = "loop_read" /\ sdkError = "read_positions"
                \/ pc = "loop_write" /\ sdkError = "write_position")
  /\ [][outcome = "running"]_vars

C7_Witness ==
  /\ pc = "loop_pace"
  /\ interrupted
  /\ outcome = "stopped"
  /\ "stopped" \in printed

\* C8 as stated: no error raised by an SDK operation leaves main unhandled.
C8_NoSdkErrorEscapes == sdkError # "none" => outcome # "unhandled_exception"

\* C8, amended: an error raised by port discovery is caught and reported and
\* main returns before constructing a handle; an error raised by any other SDK
\* operation is not caught and leaves main as an unhandled exception.
C8_ErrorHandling ==
  sdkError # "none" =>
    IF sdkError = "find_servo_port"
      THEN /\ outcome = "returned"
           /\ "error_finding_ports" \in printed
           /\ \A h \in Handles : ~constructed[h]
      ELSE /\ outcome = "unhandled_exception"
           /\ "error_finding_ports" \notin printed

C8_Witness ==
  /\ sdkError = "find_servo_port"
  /\ outcome = "returned"
  /\ pc = "discover"

\* C9: in every state after classification, whatever the two voltages, one
\* handle is the Leader and the other the Follower, and the assignment never
\* changes afterwards.
C9_RoleInvariant ==
  /\ [](pc \notin BeforeWith \cup {"enter2", "read_voltage1", "read_voltage2", "classify"}
          => Classified)
  /\ [](Classified => (leader \in Handles /\ follower \in Handles /\ leader # follower))
  /\ [][Classified => (leader' = leader /\ follower' = follower)]_vars

C9_Witness ==
  /\ TeleopEntered
  /\ ~BelowThreshold(voltage1) /\ ~BelowThreshold(voltage2)
  /\ leader = 2 /\ follower = 1

\* C10: write_position is only ever issued to the handle classified Follower,
\* and only after its joint_limit_calibration has returned; calibration is only
\* issued to the Follower; the Leader only receives read_voltage and
\* read_positions.
C10_WritesOnlyToCalibratedFollower ==
  \A h \in Handles :
    /\ "write_position" \in ops[h] => (Classified /\ h = follower /\ calibrated[h])
    /\ "joint_limit_calibration" \in ops[h] => (Classified /\ h = follower)
    /\ (Classified /\ h = leader) =>
         (ops[h] \subseteq {"read_voltage", "read_positions"} /\ ~calibrated[h])

C10_Witness ==
  /\ pc = "loop_measure"
  /\ "write_position" \in ops[follower]
  /\ calibrated[follower]
  /\ ops[leader] = {"read_voltage", "read_positions"}

====
